---- MODULE Spec2Model ----
(***************************************************************************)
(* A model of the resolution core of deno-molt:                            *)
(*   - src/lib/dependency.ts: parse, toUrl, resolveLatestVersion,          *)
(*     LatestVersionCache and _resolveLatestVersion.                       *)
(* Spec      : concurrent resolveLatestVersion calls (async tasks that     *)
(*             interleave at their await points).                          *)
(* SpecParse : parse followed by toUrl on bounded specifier strings.       *)
(*   - createVersionProp (lib/update.ts), the reconciliation of the        *)
(*     updates of one group into a {from, to} pair.                        *)
(* SpecVersionProp : createVersionProp on bounded lists of updates.        *)
(*   - applyToModule and applyToImportMap (lib/update.ts), the splice of   *)
(*     the new version into the text of a module or of an import map.      *)
(* SpecPatch : both functions on bounded texts.                            *)
(*   - src/cli.ts: _commit and _task, with GitCommitSequence.from and      *)
(*     GitCommitSequence.exec (lib/git.ts).                                *)
(* SpecCommit : composing and executing a commit sequence, one command     *)
(*             or task at a time.                                          *)
(*   - src/lib/import_map.ts: ImportMap.resolve, used by _create           *)
(*     (lib/update.ts) to make the DependencyUpdate of one import.         *)
(* SpecCreate : one _create call on an import, with or without an import   *)
(*             map.                                                        *)
(* SpecRead  : ImportMap.readFromJson on a set of configuration files, one *)
(*             file read at a time.                                        *)
(***************************************************************************)
EXTENDS Integers, Sequences, FiniteSets, TLC

VARIABLES
  pc,         \* per call of resolveLatestVersion: where the call stands
  dep,        \* per call: the Dependency argument
  result,     \* per call: the value the call's promise settled with
  mutex,      \* LatestVersionCache.#mutex: per key, the queue of acquirers
  cache,      \* LatestVersionCache.#cache: per name, the cached entry
  fetched,    \* per name: number of fetch() requests issued by calls for it
  served,     \* per name: the response the fetch() for it settled with
  stage,      \* SpecParse: "input", "parsed" or "built"
  specifier,  \* SpecParse: the specifier given to parse
  parsed,     \* SpecParse: the Dependency parse returned
  rebuilt,    \* SpecParse: the string toUrl returned
  updates,    \* SpecVersionProp: the list given to createVersionProp
  versionProp, \* SpecVersionProp: what createVersionProp returned or threw
  content,    \* SpecPatch: the text of the module or of the import map
  update,     \* SpecPatch: the DependencyUpdate to apply
  patched,    \* SpecPatch: the text applyToModule / applyToImportMap returned
  job,        \* SpecCommit: the updates and options given to _commit / commitAll
  commits,    \* SpecCommit: GitCommitSequence.commits, the CommitRecords
  log,        \* SpecCommit: the commands and hooks run so far, in order
  cursor,     \* SpecCommit: where exec stands (record, step, task)
  occurrence, \* SpecCreate: the import given to _create (specifier, referrer)
  importMap,  \* SpecCreate: the ImportMap option of _create, or none
  answered,   \* SpecCreate: what resolveLatestVersion answers inside _create
  created,    \* SpecCreate: what _create returned or threw
  configs,    \* SpecRead: per path, the JSON file stored there
  reading,    \* SpecRead: the url of the readFromJson call that is running
  visited,    \* SpecRead: the paths readFromJson has read so far
  loaded      \* SpecRead: what the outermost readFromJson settled with

vars == <<pc, dep, result, mutex, cache, fetched, served,
          stage, specifier, parsed, rebuilt, updates, versionProp,
          content, update, patched, job, commits, log, cursor,
          occurrence, importMap, answered, created,
          configs, reading, visited, loaded>>

resolverVars == <<pc, dep, result, mutex, cache, fetched, served>>
parseVars == <<stage, specifier, parsed, rebuilt>>
propVars == <<updates, versionProp>>
patchVars == <<content, update, patched>>
commitVars == <<job, commits, log, cursor>>
createVars == <<occurrence, importMap, answered, created>>
readVars == <<configs, reading, visited, loaded>>

\* What the actions of one component leave alone.
outsideResolver == <<parseVars, propVars, patchVars, commitVars, createVars,
                    readVars>>
outsideParse == <<resolverVars, propVars, patchVars, commitVars, createVars,
                    readVars>>
outsideProp == <<resolverVars, parseVars, patchVars, commitVars, createVars,
                    readVars>>
outsidePatch == <<resolverVars, parseVars, propVars, commitVars, createVars,
                    readVars>>
outsideCommit == <<resolverVars, parseVars, propVars, patchVars, createVars,
                    readVars>>
outsideCreate == <<resolverVars, parseVars, propVars, patchVars, commitVars,
                   readVars>>
outsideRead == <<resolverVars, parseVars, propVars, patchVars, commitVars,
                 createVars>>

(***************************************************************************)
(* Bounds.                                                                 *)
(***************************************************************************)
NTasks == 2
MaxLen == 5
MaxUpdates == 3
MaxPad == 1
MaxHookTasks == 2

Tasks == 1..NTasks

(***************************************************************************)
(* Values.  `undefined` models an absent `version` (and an absent return   *)
(* value is the record Absent below).                                      *)
(***************************************************************************)
Undefined == "undefined"

Names == {"pkgA", "pkgB"}
\* Version tokens a registry can report.
RegistryVersions == {"1.0.0", "2.0.0", "2.0.0-rc.1"}

\* The Dependency values parse() yields for the specifiers a caller holds:
\*   npm:<name>@1.0.0   npm:<name>@2.0.0   npm:<name>@^1.0.0
\*   jsr:<name>@1.0.0   https://<name>@1.0.0/mod.ts   https://<name>/mod.ts
\*   file://<name>@1.0.0/mod.ts
Dep(protocol, name, version, path) ==
  [protocol |-> protocol, name |-> name, version |-> version, path |-> path]

Dependency ==
  UNION {{Dep("npm:", n, "1.0.0", ""), Dep("npm:", n, "2.0.0", ""),
          Dep("npm:", n, "^1.0.0", ""), Dep("jsr:", n, "1.0.0", ""),
          Dep("https:", n, "1.0.0", "/mod.ts"),
          Dep("https:", n, Undefined, "/mod.ts"),
          Dep("file:", n, "1.0.0", "/mod.ts")} : n \in Names}

NoDep == Dep("", "", Undefined, "")

(***************************************************************************)
(* std/semver as the resolver uses it.                                     *)
(***************************************************************************)
\* SemVer.parse: the parsed form of a version token.
SemVerOf(v) ==
  CASE v = "1.0.0"      -> [major |-> 1, minor |-> 0, patch |-> 0, prerelease |-> <<>>]
    [] v = "2.0.0"      -> [major |-> 2, minor |-> 0, patch |-> 0, prerelease |-> <<>>]
    [] v = "2.0.0-rc.1" -> [major |-> 2, minor |-> 0, patch |-> 0, prerelease |-> <<"rc", "1">>]

\* SemVer.tryParse succeeds on these tokens only.
IsSemVer(v) == v \in {"1.0.0", "2.0.0", "2.0.0-rc.1"}

\* SemVer.tryParseRange(version).flat().length; 0 stands for `undefined`.
\* A pin is one comparator, a caret range is a pair (>=1.0.0 <2.0.0).
ComparatorCount(v) ==
  CASE v = "^1.0.0" -> 2
    [] IsSemVer(v)  -> 1
    [] OTHER        -> 0

\* SemVer.compare: negative, zero or positive.
Compare(x, y) ==
  IF x.major # y.major THEN x.major - y.major
  ELSE IF x.minor # y.minor THEN x.minor - y.minor
  ELSE IF x.patch # y.patch THEN x.patch - y.patch
  ELSE IF x.prerelease = y.prerelease THEN 0
  ELSE IF x.prerelease = <<>> THEN 1
  ELSE IF y.prerelease = <<>> THEN -1
  ELSE 0

\* isPreRelease(version)
isPreRelease(v) == IsSemVer(v) /\ Len(SemVerOf(v).prerelease) > 0

\* const constraint = ...; constraint && constraint.flat().length > 1
IsInequalityRange(v) == v # Undefined /\ ComparatorCount(v) > 1

(***************************************************************************)
(* Values of the resolver.                                                 *)
(***************************************************************************)
\* LatestVersionCache.#cache.get(name): undefined, null or an UpdatedDependency.
Unresolved == [kind |-> "unresolved"]
NoUpdate == [kind |-> "null"]
Resolved(d) == [kind |-> "resolved", dep |-> d]

\* What a call's promise settles with.
Pending == [kind |-> "pending"]
Absent == [kind |-> "absent"]
Update(d) == [kind |-> "update", dep |-> d]
Thrown == [kind |-> "error"]

\* Responses of fetch().  `rejected` is a rejected fetch promise.
Rejected == [kind |-> "rejected"]
NotServed == [kind |-> "none"]

\* registry.npmjs.org/<name>: { "dist-tags": { latest } } when valid.
NpmResponses ==
  {[kind |-> "npm", ok |-> FALSE, valid |-> FALSE, latest |-> Undefined],
   [kind |-> "npm", ok |-> TRUE, valid |-> FALSE, latest |-> Undefined]}
  \cup {[kind |-> "npm", ok |-> TRUE, valid |-> TRUE, latest |-> v] :
          v \in RegistryVersions}

\* jsr.io/<name>/meta.json: { versions: { <version>: { yanked? } } } when valid.
\* `versions` maps each listed version to its yanked flag.
JsrMetas == UNION {[S -> BOOLEAN] : S \in SUBSET RegistryVersions}

JsrResponses ==
  {[kind |-> "jsr", ok |-> FALSE, valid |-> FALSE, versions |-> <<>>],
   [kind |-> "jsr", ok |-> TRUE, valid |-> FALSE, versions |-> <<>>]}
  \cup {[kind |-> "jsr", ok |-> TRUE, valid |-> TRUE, versions |-> m] :
          m \in JsrMetas}

\* HEAD <protocol>//<name><path>.  `url` is the final URL of the response, given
\* by the Dependency that parse() returns for it: a registry redirects
\* <name><path> to <name>@<version><path>, or to an unversioned URL.  It is
\* read only when the response was redirected; `ok` is never read.
HttpResponses(d) ==
  {[kind |-> "http", redirected |-> FALSE, ok |-> k,
    url |-> [d EXCEPT !.version = Undefined]] : k \in BOOLEAN}
  \cup {[kind |-> "http", redirected |-> TRUE, ok |-> k,
         url |-> [d EXCEPT !.version = v]] :
          k \in BOOLEAN, v \in RegistryVersions \cup {Undefined}}

Responses(d) ==
  {Rejected} \cup
  (CASE d.protocol = "npm:" -> NpmResponses
     [] d.protocol = "jsr:" -> JsrResponses
     [] OTHER -> HttpResponses(d))

(***************************************************************************)
(* _resolveLatestVersion, in the two parts its first `await` separates.    *)
(***************************************************************************)
\* Outcomes of the part after the fetch.
Break == [kind |-> "break"]
Found(d) == [kind |-> "found", dep |-> d]
Throw == [kind |-> "throw"]

\* The cache check without its `cached === null` branch.
CacheCheckIgnoringNull(cached, d) ==
  IF cached.kind = "resolved"
    THEN [kind |-> "return", value |-> Update([cached.dep EXCEPT !.path = d.path])]
  ELSE IF IsInequalityRange(d.version)
    THEN [kind |-> "return", value |-> Absent]
  ELSE IF d.protocol \in {"npm:", "jsr:", "http:", "https:"}
    THEN [kind |-> "fetch", value |-> Absent]
  ELSE [kind |-> "nocase", value |-> Absent]

\* _resolveLatestVersion without its cache check (lines 190-197).
CacheCheckWithoutCache(cached, d) ==
  IF IsInequalityRange(d.version)
    THEN [kind |-> "return", value |-> Absent]
  ELSE IF d.protocol \in {"npm:", "jsr:", "http:", "https:"}
    THEN [kind |-> "fetch", value |-> Absent]
  ELSE [kind |-> "nocase", value |-> Absent]

\* Lines 190-207: the cache check, the range check and the switch.
CacheCheck(cached, d) ==
  IF cached.kind = "resolved"
    THEN [kind |-> "return", value |-> Update([cached.dep EXCEPT !.path = d.path])]
  ELSE IF cached.kind = "null"
    THEN [kind |-> "return", value |-> Absent]
  ELSE IF IsInequalityRange(d.version)
    THEN [kind |-> "return", value |-> Absent]
  ELSE IF d.protocol \in {"npm:", "jsr:", "http:", "https:"}
    THEN [kind |-> "fetch", value |-> Absent]
  ELSE [kind |-> "nocase", value |-> Absent]

\* case "npm:" without the isPreRelease(latest) test.
ResolveNpmAllowingPreRelease(d, r) ==
  IF ~r.ok THEN Break
  ELSE IF ~r.valid THEN Throw
  ELSE IF r.latest = d.version THEN Break
  ELSE Found([d EXCEPT !.version = r.latest])

\* case "npm:" after the fetch (lines 212-227).
ResolveNpm(d, r) ==
  IF ~r.ok THEN Break
  ELSE IF ~r.valid THEN Throw
  ELSE IF r.latest = d.version \/ isPreRelease(r.latest) THEN Break
  ELSE Found([d EXCEPT !.version = r.latest])

\* The filter without its `!yanked` test.
JsrCandidatesWithYanked(versions) ==
  {v \in DOMAIN versions : ~isPreRelease(v)}

\* filterEntries(meta.versions, ([version, { yanked }]) => !yanked && !isPreRelease(version))
JsrCandidates(versions) ==
  {v \in DOMAIN versions : ~versions[v] /\ ~isPreRelease(v)}

\* SemVer.format(semvers.sort(SemVer.compare).reverse()[0]) for a non-empty list.
JsrLatest(candidates) ==
  CHOOSE v \in candidates :
    \A w \in candidates : Compare(SemVerOf(w), SemVerOf(v)) <= 0

\* case "jsr:" after the fetch (lines 234-254).  With no candidate left,
\* SemVer.format is applied to `undefined` and throws.
ResolveJsr(d, r) ==
  IF ~r.ok THEN Break
  ELSE IF ~r.valid THEN Throw
  ELSE LET candidates == JsrCandidates(r.versions) IN
    IF candidates = {} THEN Throw
    ELSE LET latest == JsrLatest(candidates) IN
      IF latest = d.version \/ isPreRelease(latest) THEN Break
      ELSE Found([d EXCEPT !.version = latest])

\* case "http:", "https:" after the fetch (lines 262-273).
ResolveHttp(d, r) ==
  IF ~r.redirected THEN Break
  ELSE LET latest == r.url IN
    IF latest.version = Undefined \/ isPreRelease(latest.version) THEN Break
    ELSE Found(latest)

\* Lines 207-276 once the fetch has settled with r.
AfterFetch(d, r) ==
  IF r.kind = "rejected" THEN Throw
  ELSE CASE d.protocol = "npm:" -> ResolveNpm(d, r)
         [] d.protocol = "jsr:" -> ResolveJsr(d, r)
         [] OTHER -> ResolveHttp(d, r)

(***************************************************************************)
(* resolveLatestVersion: the calls, as tasks that interleave at awaits.    *)
(***************************************************************************)
\* One Mutex shared by every name.
MutexKeyShared(d) == "pkgA"

\* LatestVersionCache.lock(dependency.name): the key of the Mutex taken.
MutexKey(d) == d.name

\* A Mutex that lets every acquirer in.
AcquiredWithoutWaiting(t, queue) == queue # <<>>

\* Mutex.acquire() resolves for the oldest acquirer that has not released.
Acquired(t, queue) == queue # <<>> /\ Head(queue) = t

\* lock() not awaited: _resolveLatestVersion runs whoever holds the Mutex.
HoldsLockNotAwaited(t) == TRUE

\* await LatestVersionCache.lock(dependency.name) has resolved for the call.
HoldsLock(t) == Acquired(t, mutex[MutexKey(dep[t])])

\* LatestVersionCache.set(name, entry)
CacheSet(name, entry) == [cache EXCEPT ![name] = entry]

\* Line 276 left out: nothing is cached when the switch breaks.
NegativeCacheSkipped(name) == cache

\* LatestVersionCache.set(dependency.name, null), line 276.
NegativeCache(name) == CacheSet(name, NoUpdate)

\* A call that has neither returned nor thrown.
InFlight(t) == pc[t] \in {"lock", "fetch", "unlock"}

\* resolveLatestVersion(d) is called: lock() queues the call on the Mutex of
\* its name (line 152).  Calls are numbered in the order they are made.
Call(t, d) ==
  /\ pc[t] = "idle"
  /\ \A u \in Tasks : u < t => pc[u] # "idle"
  /\ pc' = [pc EXCEPT ![t] = "lock"]
  /\ dep' = [dep EXCEPT ![t] = d]
  /\ mutex' = [mutex EXCEPT ![MutexKey(d)] = Append(@, t)]
  /\ UNCHANGED <<result, cache, fetched, served>>
  /\ UNCHANGED outsideResolver

\* The lock is acquired and _resolveLatestVersion runs up to its first await
\* (lines 153, 190-211/233/261), or to its end when it awaits nothing.
Enter(t) ==
  /\ pc[t] = "lock"
  /\ HoldsLock(t)
  /\ LET d == dep[t]
         o == CacheCheck(cache[d.name], d)
     IN  CASE o.kind = "return" ->
                /\ pc' = [pc EXCEPT ![t] = "unlock"]
                /\ result' = [result EXCEPT ![t] = o.value]
                /\ UNCHANGED <<cache, fetched>>
           [] o.kind = "fetch" ->
                /\ pc' = [pc EXCEPT ![t] = "fetch"]
                /\ fetched' = [fetched EXCEPT ![d.name] = @ + 1]
                /\ UNCHANGED <<result, cache>>
           [] OTHER ->
                /\ pc' = [pc EXCEPT ![t] = "unlock"]
                /\ result' = [result EXCEPT ![t] = Absent]
                /\ cache' = NegativeCache(d.name)
                /\ UNCHANGED fetched
  /\ UNCHANGED <<dep, mutex, served>>
  /\ UNCHANGED outsideResolver

\* The fetch settles with r and _resolveLatestVersion runs to its end (lines
\* 212-276).  A throw leaves resolveLatestVersion at line 153: line 154 is
\* not reached and the Mutex stays held.
Respond(t, r) ==
  /\ pc[t] = "fetch"
  /\ LET d == dep[t]
         o == AfterFetch(d, r)
     IN  /\ served' = [served EXCEPT ![d.name] = r]
         /\ CASE o.kind = "throw" ->
                   /\ pc' = [pc EXCEPT ![t] = "failed"]
                   /\ result' = [result EXCEPT ![t] = Thrown]
                   /\ UNCHANGED cache
              [] o.kind = "found" ->
                   /\ pc' = [pc EXCEPT ![t] = "unlock"]
                   /\ result' = [result EXCEPT ![t] = Update(o.dep)]
                   /\ cache' = CacheSet(d.name, Resolved(o.dep))
              [] OTHER ->
                   /\ pc' = [pc EXCEPT ![t] = "unlock"]
                   /\ result' = [result EXCEPT ![t] = Absent]
                   /\ cache' = NegativeCache(d.name)
  /\ UNCHANGED <<dep, mutex, fetched>>
  /\ UNCHANGED outsideResolver

\* LatestVersionCache.unlock(dependency.name); return result (lines 154-155).
Return(t) ==
  /\ pc[t] = "unlock"
  /\ pc' = [pc EXCEPT ![t] = "done"]
  /\ mutex' = [mutex EXCEPT ![MutexKey(dep[t])] = Tail(@)]
  /\ UNCHANGED <<dep, result, cache, fetched, served>>
  /\ UNCHANGED outsideResolver

\* A step of call t.
Step(t) == Enter(t) \/ (\E r \in Responses(dep[t]) : Respond(t, r)) \/ Return(t)

(***************************************************************************)
(* parse and toUrl on specifier strings.  A string is a sequence whose     *)
(* first element is the scheme with its colon and whose other elements     *)
(* are characters.                                                         *)
(***************************************************************************)
Chars == {"a", "1", "@", "/"}

\* The search components a specifier is given: none, or "?a".
Searches == {<<>>, <<"?", "a">>}

SpecifierProtocols == {"https:", "file:", "npm:"}

StringsUpTo(n) == UNION {[1..k -> Chars] : k \in 0..n}

\* Index of the first c in s, or Len(s) + 1.
IndexOf(s, c) ==
  IF \E i \in 1..Len(s) : s[i] = c
    THEN CHOOSE i \in 1..Len(s) : s[i] = c /\ \A j \in 1..(i - 1) : s[j] # c
    ELSE Len(s) + 1

\* addSeparator(protocol), lines 102-111.
addSeparator(protocol) ==
  IF protocol \in {"file:", "http:", "https:"}
    THEN <<protocol, "/", "/">>
    ELSE <<protocol>>

\* new URL(url): protocol, hostname and pathname of a specifier whose text
\* after the scheme's separator is `rest`.  The search component (from the
\* first "?") belongs to neither; an empty path of a hierarchical URL is "/".
UrlOf(url) ==
  LET protocol == url[1]
      rest == SubSeq(url, Len(addSeparator(protocol)) + 1, Len(url))
      noSearch == SubSeq(rest, 1, IndexOf(rest, "?") - 1)
      slash == IndexOf(noSearch, "/")
  IN  IF Len(addSeparator(protocol)) > 1
        THEN [protocol |-> protocol,
              hostname |-> SubSeq(noSearch, 1, slash - 1),
              pathname |-> IF slash > Len(noSearch) THEN <<"/">>
                           ELSE SubSeq(noSearch, slash, Len(noSearch))]
        ELSE [protocol |-> protocol, hostname |-> <<>>, pathname |-> noSearch]

\* The positions of "@" at which /^(?<name>.+)@(?<version>[^/]+)(?<path>\/.*)?$/
\* can split body: a non-empty name before, a non-empty version after.
SplitPoints(body) ==
  {i \in 2..(Len(body) - 1) : body[i] = "@" /\ body[i + 1] # "/"}

\* parse(url), lines 79-97.  The greedy name takes the rightmost split point.
\* An absent version is the empty string (toUrl tests it for truthiness).
parse(url) ==
  LET u == UrlOf(url)
      body == u.hostname \o u.pathname
      points == SplitPoints(body)
  IN  IF points = {}
        THEN [protocol |-> u.protocol, name |-> body, version |-> <<>>, path |-> <<>>]
        ELSE LET i == CHOOSE p \in points : \A q \in points : q <= p
                 tail == SubSeq(body, i + 1, Len(body))
                 j == IndexOf(tail, "/")
             IN  [protocol |-> u.protocol,
                  name |-> SubSeq(body, 1, i - 1),
                  version |-> SubSeq(tail, 1, j - 1),
                  path |-> SubSeq(tail, j, Len(tail))]

\* toUrl(dependency), lines 126-131.
toUrl(d) ==
  addSeparator(d.protocol) \o d.name
    \o (IF d.version # <<>> THEN <<"@">> \o d.version ELSE <<>>) \o d.path

\* Number of occurrences of c in s.
Count(s, c) == Cardinality({i \in 1..Len(s) : s[i] = c})

\* The well-formed specifiers: new URL() accepts them and keeps their host
\* (an http(s) URL has a host; a host is letters and digits, not a number;
\* a file URL without a host has an absolute path); at most one "@", between
\* a name and a version; no empty path segment; and a search component, if
\* any, on an http(s) URL only, non-empty and of letters and digits.
WellFormed(url) ==
  LET u == UrlOf(url)
      rest == SubSeq(url, Len(addSeparator(u.protocol)) + 1, Len(url))
      q == IndexOf(rest, "?")
  IN  /\ \A i \in 1..Len(u.hostname) : u.hostname[i] \in {"a", "1"}
      /\ u.hostname # <<>> => \E i \in 1..Len(u.hostname) : u.hostname[i] = "a"
      /\ u.protocol \in {"http:", "https:"} => u.hostname # <<>>
      /\ u.protocol = "file:" /\ u.hostname = <<>> => rest # <<>> /\ rest[1] = "/"
      /\ Count(rest, "@") <= 1
      /\ \A i \in 1..Len(rest) :
           rest[i] = "@" => /\ 1 < i /\ i < Len(rest)
                            /\ rest[i - 1] \in {"a", "1"}
                            /\ rest[i + 1] \in {"a", "1"}
      /\ \A i \in 1..(Len(rest) - 1) : ~(rest[i] = "/" /\ rest[i + 1] = "/")
      /\ q <= Len(rest) => /\ u.protocol \in {"http:", "https:"}
                           /\ q < Len(rest)
                           /\ \A i \in (q + 1)..Len(rest) : rest[i] \in {"a", "1"}

\* A scheme with its separator, up to MaxLen characters, and a search component.
Specifiers ==
  {addSeparator(p) \o r \o q :
     p \in SpecifierProtocols, r \in StringsUpTo(MaxLen), q \in Searches}

NoParse == [protocol |-> "", name |-> <<>>, version |-> <<>>, path |-> <<>>]

\* createVersionProp has not been called.
NotCalled == [kind |-> "none"]

PropIdle ==
  /\ updates = <<>>
  /\ versionProp = NotCalled

\* No text has been patched.
NoPatch == [kind |-> "none"]
NotPatched == <<"not patched">>

PatchIdle ==
  /\ content = <<>>
  /\ update = NoPatch
  /\ patched = NotPatched

\* _commit has not been called.
NoJob == [updates |-> <<>>, groupBy |-> "none", preCommit |-> 0, postCommit |-> 0]
At(record, step, task) == [record |-> record, step |-> step, task |-> task]

CommitIdle ==
  /\ job = NoJob
  /\ commits = <<>>
  /\ log = <<>>
  /\ cursor = At(0, "idle", 0)

\* _create has not been called.
NoOccurrence == [specifier |-> <<>>, referrer |-> ""]
NoImportMap == [kind |-> "none"]
NotCreated == [kind |-> "none"]

CreateIdle ==
  /\ occurrence = NoOccurrence
  /\ importMap = NoImportMap
  /\ answered = Absent
  /\ created = NotCreated

\* readFromJson has not been called.
NotLoaded == [kind |-> "none"]

ReadIdle ==
  /\ configs = <<>>
  /\ reading = 0
  /\ visited = {}
  /\ loaded = NotLoaded

ResolverIdle ==
  /\ pc = [t \in Tasks |-> "idle"]
  /\ dep = [t \in Tasks |-> NoDep]
  /\ result = [t \in Tasks |-> Pending]
  /\ mutex = [n \in Names |-> <<>>]
  /\ cache = [n \in Names |-> Unresolved]
  /\ fetched = [n \in Names |-> 0]
  /\ served = [n \in Names |-> NotServed]

InitParse ==
  /\ ResolverIdle
  /\ PropIdle
  /\ PatchIdle
  /\ CommitIdle
  /\ CreateIdle
  /\ ReadIdle
  /\ stage = "input"
  /\ specifier \in {s \in Specifiers : WellFormed(s)}
  /\ parsed = NoParse
  /\ rebuilt = <<>>

\* const dependency = parse(specifier)
Parse ==
  /\ stage = "input"
  /\ stage' = "parsed"
  /\ parsed' = parse(specifier)
  /\ UNCHANGED <<specifier, rebuilt>>
  /\ UNCHANGED outsideParse

\* toUrl(dependency)
Build ==
  /\ stage = "parsed"
  /\ stage' = "built"
  /\ rebuilt' = toUrl(parsed)
  /\ UNCHANGED <<specifier, parsed>>
  /\ UNCHANGED outsideParse

NextParse == Parse \/ Build

SpecParse == InitParse /\ [][NextParse]_vars

ParseIdle ==
  /\ stage = "idle"
  /\ specifier = <<>>
  /\ parsed = NoParse
  /\ rebuilt = <<>>

(***************************************************************************)
(* createVersionProp on lists of DependencyUpdate.                         *)
(***************************************************************************)
\* The fields of a DependencyUpdate that createVersionProp reads.
DependencyUpdate ==
  [name : {"deno_graph", "node-emoji"},
   version : [from : {"0.0.1", "0.0.2"}, to : {"0.1.0", "0.2.0"}]]

UpdateLists == UNION {[1..k -> DependencyUpdate] : k \in 0..MaxUpdates}

\* distinct that keeps every element.
distinctKeepingAll(array) == array

\* distinct(array): the elements in the order of their first occurrence.
RECURSIVE distinct(_)
distinct(array) ==
  IF array = <<>> THEN <<>>
  ELSE LET front == distinct(SubSeq(array, 1, Len(array) - 1))
           last == array[Len(array)]
       IN  IF \E i \in 1..Len(front) : front[i] = last
             THEN front
             ELSE Append(front, last)

\* dependencies.map(f) for the three fields read.
MapName(dependencies) == [i \in 1..Len(dependencies) |-> dependencies[i].name]
MapTo(dependencies) == [i \in 1..Len(dependencies) |-> dependencies[i].version.to]
MapFrom(dependencies) == [i \in 1..Len(dependencies) |-> dependencies[i].version.from]

\* array[0], `undefined` on an empty array.
First(array) == IF array = <<>> THEN Undefined ELSE array[1]

\* What createVersionProp does: returns a VersionProp, returns undefined, or
\* throws.
VersionProp(from, to) == [kind |-> "prop", from |-> from, to |-> to]
NoVersionProp == [kind |-> "undefined"]
\* Lines 21-25: the Error thrown.  Its message is the fixed text "Multiple
\* target versions are specified for a single module"; names is the set of
\* versions that the message spells out: none.
Conflict == [kind |-> "error", names |-> {}]

\* createVersionProp taking froms[0] whatever the number of distinct froms.
createVersionPropFirstFrom(dependencies) ==
  LET modules == distinct(MapName(dependencies))
      tos == distinct(MapTo(dependencies))
      froms == distinct(MapFrom(dependencies))
  IN  IF Len(modules) > 1 THEN NoVersionProp
      ELSE IF Len(tos) > 1 THEN Conflict
      ELSE VersionProp(First(froms), First(tos))

\* createVersionProp without the throw on several targets.
createVersionPropNoThrow(dependencies) ==
  LET modules == distinct(MapName(dependencies))
      tos == distinct(MapTo(dependencies))
      froms == distinct(MapFrom(dependencies))
  IN  IF Len(modules) > 1 THEN NoVersionProp
      ELSE VersionProp(IF Len(froms) = 1 THEN froms[1] ELSE Undefined, First(tos))

\* createVersionProp testing the targets before the names.
createVersionPropTargetsFirst(dependencies) ==
  LET modules == distinct(MapName(dependencies))
      tos == distinct(MapTo(dependencies))
      froms == distinct(MapFrom(dependencies))
  IN  IF Len(tos) > 1 THEN Conflict
      ELSE IF Len(modules) > 1 THEN NoVersionProp
      ELSE VersionProp(IF Len(froms) = 1 THEN froms[1] ELSE Undefined, First(tos))

\* createVersionProp(dependencies), lines 12-31.
createVersionProp(dependencies) ==
  LET modules == distinct(MapName(dependencies))
      tos == distinct(MapTo(dependencies))
      froms == distinct(MapFrom(dependencies))
  IN  IF Len(modules) > 1 THEN NoVersionProp
      ELSE IF Len(tos) > 1 THEN Conflict
      ELSE VersionProp(IF Len(froms) = 1 THEN froms[1] ELSE Undefined, First(tos))

InitVersionProp ==
  /\ ResolverIdle
  /\ ParseIdle
  /\ PatchIdle
  /\ CommitIdle
  /\ CreateIdle
  /\ ReadIdle
  /\ updates \in UpdateLists
  /\ versionProp = NotCalled

\* createVersionProp(updates) is called and returns or throws.
CreateVersionProp ==
  /\ versionProp = NotCalled
  /\ versionProp' = createVersionProp(updates)
  /\ UNCHANGED updates
  /\ UNCHANGED outsideProp

NextVersionProp == CreateVersionProp

SpecVersionProp == InitVersionProp /\ [][NextVersionProp]_vars

(***************************************************************************)
(* applyToModule and applyToImportMap.  A text is a sequence of            *)
(* characters (a scheme with its colon counts as one).                     *)
(***************************************************************************)
Quote == "'"

\* Version tokens of the specifiers, and the targets of an update.
PriorVersions == {<<"1">>, <<"2">>}
TargetVersions == {<<"1">>, <<"2">>, <<"1", "2">>}

\* The text around a specifier literal, up to MaxPad characters a side.
Pads == UNION {[1..k -> {"a", "1", " "}] : k \in 0..MaxPad}
\* Runs of white space, and an optional comment.
Spaces == {[i \in 1..k |-> " "] : k \in 0..MaxPad}
Comments == {<<>>, <<"#">>}

PackageNames == {<<"a">>, <<"a", "1">>}

\* "<literal>"
Quoted(literal) == <<Quote>> \o literal \o <<Quote>>

\* <scheme><name>@<version><path>
SpecifierOf(protocol, name, version, path) ==
  addSeparator(protocol) \o name \o <<"@">> \o version \o path

\* A module text with one import of a versioned specifier, and the update
\* the collector records for it: the span of the literal and {from, to}.
ModuleInputs ==
  {[content |-> pre \o Quoted(SpecifierOf(p, n, v, path)) \o post,
    update |-> [kind |-> "module",
                span |-> [start |-> Len(pre) + 1,
                          end |-> Len(pre) + Len(SpecifierOf(p, n, v, path)) + 2],
                version |-> [from |-> v, to |-> w]]] :
     pre \in Pads, post \in Pads, p \in {"npm:", "https:"},
     n \in PackageNames, v \in PriorVersions, w \in TargetVersions,
     path \in {<<>>, <<"/", "a">>}}

\* The keys and the values of the import-map entries.
ImportKeys == <<(<<"a", "/">>), (<<"b", "/">>)>>
ImportValues ==
  {SpecifierOf("https:", n, v, <<"/">>) : n \in PackageNames, v \in PriorVersions}

\* The version token of a value built by SpecifierOf.
VersionIn(value) ==
  LET at == CHOOSE i \in 1..Len(value) : value[i] = "@"
  IN  SubSeq(value, at + 1, Len(value) - 1)

\* { "a/": <v1>, # "b/": <v2> } with its white space and comment.
ImportMapText(v1, v2, ws, comment) ==
  <<"{">> \o ws \o Quoted(ImportKeys[1]) \o <<":">> \o ws \o Quoted(v1)
    \o <<",">> \o comment \o ws
    \o Quoted(ImportKeys[2]) \o <<":">> \o ws \o Quoted(v2) \o ws \o <<"}">>

\* An import map of two entries, and the update the collector records for
\* an import resolved through entry k: the matched key and value, {from, to}.
ImportMapInputs ==
  {[content |-> ImportMapText(v[1], v[2], ws, c),
    update |-> [kind |-> "importMap",
                map |-> [from |-> ImportKeys[k], to |-> v[k]],
                version |-> [from |-> VersionIn(v[k]), to |-> w]]] :
     v \in [1..2 -> ImportValues], ws \in Spaces, c \in Comments,
     k \in 1..2, w \in TargetVersions}

\* The first index from `start` on at which pattern occurs in text, or 0.
Find(text, pattern, start) ==
  LET hits == {i \in start..(Len(text) - Len(pattern) + 1) :
                 SubSeq(text, i, i + Len(pattern) - 1) = pattern}
  IN  IF hits = {} THEN 0 ELSE CHOOSE i \in hits : \A j \in hits : i <= j

\* The index of the version token of the specifier at text[lo..hi]: right
\* after its last "@".
VersionOffset(text, lo, hi) ==
  LET ats == {i \in lo..hi : text[i] = "@"}
  IN  1 + CHOOSE i \in ats : \A j \in ats : j <= i

\* text with the token old at index `at` replaced by new.
Splice(text, at, old, new) ==
  SubSeq(text, 1, at - 1) \o new \o SubSeq(text, at + Len(old), Len(text))

\* The replacement made at the first occurrence of the old version in the
\* whole text.
applyToModuleFirstOccurrence(u, text) ==
  Splice(text, Find(text, u.version.from, 1), u.version.from, u.version.to)

\* applyToModule(update, content): the version token of the specifier at the
\* recorded span is replaced.
applyToModule(u, text) ==
  Splice(text, VersionOffset(text, u.span.start, u.span.end),
         u.version.from, u.version.to)

\* The replacement made at the first occurrence of the matched value.
applyToImportMapFirstValue(u, text) ==
  LET valueAt == Find(text, Quoted(u.map.to), 1)
  IN  Splice(text, VersionOffset(text, valueAt, valueAt + Len(u.map.to) + 1),
             u.version.from, u.version.to)

\* applyToImportMap(update, content): the version token of the value of the
\* matched key is replaced.
applyToImportMap(u, text) ==
  LET keyAt == Find(text, Quoted(u.map.from), 1)
      valueAt == Find(text, Quoted(u.map.to), keyAt + Len(u.map.from) + 2)
  IN  Splice(text, VersionOffset(text, valueAt, valueAt + Len(u.map.to) + 1),
             u.version.from, u.version.to)

InitPatch ==
  /\ ResolverIdle
  /\ ParseIdle
  /\ PropIdle
  /\ CommitIdle
  /\ CreateIdle
  /\ ReadIdle
  /\ \E i \in ModuleInputs \cup ImportMapInputs :
       content = i.content /\ update = i.update
  /\ patched = NotPatched

\* DependencyUpdate.applyToModule(update, content)
ApplyToModule ==
  /\ patched = NotPatched
  /\ update.kind = "module"
  /\ patched' = applyToModule(update, content)
  /\ UNCHANGED <<content, update>>
  /\ UNCHANGED outsidePatch

\* DependencyUpdate.applyToImportMap(update, content)
ApplyToImportMap ==
  /\ patched = NotPatched
  /\ update.kind = "importMap"
  /\ patched' = applyToImportMap(update, content)
  /\ UNCHANGED <<content, update>>
  /\ UNCHANGED outsidePatch

NextPatch == ApplyToModule \/ ApplyToImportMap

SpecPatch == InitPatch /\ [][NextPatch]_vars

(***************************************************************************)
(* The commit sequence: GitCommitSequence.from and exec, driven by _commit *)
(* with its hooks.                                                         *)
(***************************************************************************)
\* The fields of a DependencyUpdate that grouping and staging read.
CommitUpdate == [name : {"std", "emoji"}, referrer : {"mod.ts", "lib.ts"}]

\* _collect exits the process when there is no update: the list is not empty.
CommitUpdateLists == UNION {[1..k -> CommitUpdate] : k \in 1..MaxUpdates}

\* groupBy: absent (one group), by dependency name, or by module file.
GroupBys == {"none", "name", "referrer"}

\* The updates, the grouping, and the numbers of pre- and post-commit tasks.
Jobs ==
  [updates : CommitUpdateLists, groupBy : GroupBys,
   preCommit : 0..MaxHookTasks, postCommit : 0..MaxHookTasks]

\* options.groupBy(update)
GroupKey(u, groupBy) ==
  CASE groupBy = "name" -> u.name
    [] groupBy = "referrer" -> u.referrer
    [] OTHER -> "dependencies"

\* One record for every update, grouped or not.
fromPerUpdate(us, groupBy) ==
  [i \in 1..Len(us) |->
     [group |-> GroupKey(us[i], groupBy), files |-> {us[i].referrer}]]

\* GitCommitSequence.from(updates, options).commits: one CommitRecord per
\* grouping key, in the order the keys first occur, with the files its
\* updates touch.
from(us, groupBy) ==
  LET keys == distinct([i \in 1..Len(us) |-> GroupKey(us[i], groupBy)])
  IN  [k \in 1..Len(keys) |->
         [group |-> keys[k],
          files |-> {us[i].referrer :
                       i \in {j \in 1..Len(us) :
                                GroupKey(us[j], groupBy) = keys[k]}}]]

\* preCommit: preCommitTasks.length > 0 ? async (commit) => ... : undefined
HasPreCommit(j) == j.preCommit > 0

\* An entry of the log: a task of a hook, or a git command, with whether it
\* exited with code 0.
Event(kind, record, task, files, ok) ==
  [kind |-> kind, record |-> record, task |-> task, files |-> files, ok |-> ok]

\* The steps of one record with the commit made before the files are staged.
StepsCommitFirst(j) ==
  (IF HasPreCommit(j) THEN <<"preCommit">> ELSE <<>>)
    \o <<"commit", "add", "postCommit">>

\* exec: the steps of one record, in order.
Steps(j) ==
  (IF HasPreCommit(j) THEN <<"preCommit">> ELSE <<>>)
    \o <<"add", "commit", "postCommit">>

\* Where exec stands after the step it is at has finished: the next step of
\* the record, the first step of the next record, or done.
Advance(c, j, records) ==
  LET steps == Steps(j)
      i == CHOOSE n \in 1..Len(steps) : steps[n] = c.step
  IN  IF i < Len(steps) THEN At(c.record, steps[i + 1], 1)
      ELSE IF c.record < Len(records) THEN At(c.record + 1, steps[1], 1)
      ELSE At(c.record, "done", 0)

InitCommit ==
  /\ ResolverIdle
  /\ ParseIdle
  /\ PropIdle
  /\ PatchIdle
  /\ CreateIdle
  /\ ReadIdle
  /\ job \in Jobs
  /\ commits = <<>>
  /\ log = <<>>
  /\ cursor = At(0, "from", 0)

\* const commits = GitCommitSequence.from(updates, {...}) (line 237), up to
\* the first await of exec.
Compose ==
  /\ cursor.step = "from"
  /\ commits' = from(job.updates, job.groupBy)
  /\ cursor' = At(1, Steps(job)[1], 1)
  /\ UNCHANGED <<job, log>>
  /\ UNCHANGED outsideCommit

\* A hook that starts its tasks without awaiting them: it returns after the
\* first one.
RunTaskNotAwaited(hook, tasks, ok) ==
  /\ cursor.step = hook
  /\ cursor.task <= tasks
  /\ log' = Append(log, Event(hook, cursor.record, cursor.task, {}, ok))
  /\ cursor' = IF ~ok THEN At(cursor.record, "exited", 0)
                ELSE Advance(cursor, job, commits)
  /\ UNCHANGED <<job, commits>>
  /\ UNCHANGED outsideCommit

\* A task whose exit code is not looked at: the hook goes on.
RunTaskIgnoringExit(hook, tasks, ok) ==
  /\ cursor.step = hook
  /\ cursor.task <= tasks
  /\ log' = Append(log, Event(hook, cursor.record, cursor.task, {}, ok))
  /\ cursor' = IF cursor.task < tasks
                  THEN At(cursor.record, hook, cursor.task + 1)
                ELSE Advance(cursor, job, commits)
  /\ UNCHANGED <<job, commits>>
  /\ UNCHANGED outsideCommit

\* A task of a hook: await _task(t) (lines 247-249, 254-256, 276-286).  A
\* non-zero exit code ends the process (Deno.exit).
RunTask(hook, tasks, ok) ==
  /\ cursor.step = hook
  /\ cursor.task <= tasks
  /\ log' = Append(log, Event(hook, cursor.record, cursor.task, {}, ok))
  /\ cursor' = IF ~ok THEN At(cursor.record, "exited", 0)
                ELSE IF cursor.task < tasks
                  THEN At(cursor.record, hook, cursor.task + 1)
                ELSE Advance(cursor, job, commits)
  /\ UNCHANGED <<job, commits>>
  /\ UNCHANGED outsideCommit

PreCommitTask(ok) == RunTask("preCommit", job.preCommit, ok)

PostCommitTask(ok) == RunTask("postCommit", job.postCommit, ok)

\* The postCommit hook when no task was chosen: it prints the message and
\* returns (lines 252-257).
PostCommitNoTask ==
  /\ cursor.step = "postCommit"
  /\ job.postCommit = 0
  /\ log' = Append(log, Event("postCommit", cursor.record, 0, {}, TRUE))
  /\ cursor' = Advance(cursor, job, commits)
  /\ UNCHANGED <<job, commits>>
  /\ UNCHANGED outsideCommit

\* A git command whose failure is not looked at: exec goes on.
GitIgnoringFailure(command, ok) ==
  /\ cursor.step = command
  /\ log' = Append(log, Event(command, cursor.record, 0,
                               IF command = "add"
                                 THEN commits[cursor.record].files ELSE {},
                               ok))
  /\ cursor' = Advance(cursor, job, commits)
  /\ UNCHANGED <<job, commits>>
  /\ UNCHANGED outsideCommit

\* git add <files> or git commit -m <message> for the record exec is at.  A
\* failure aborts exec.
Git(command, ok) ==
  /\ cursor.step = command
  /\ log' = Append(log, Event(command, cursor.record, 0,
                               IF command = "add"
                                 THEN commits[cursor.record].files ELSE {},
                               ok))
  /\ cursor' = IF ok THEN Advance(cursor, job, commits)
                ELSE At(cursor.record, "aborted", 0)
  /\ UNCHANGED <<job, commits>>
  /\ UNCHANGED outsideCommit

StageFiles(ok) == Git("add", ok)

CommitRecord(ok) == Git("commit", ok)

NextCommit ==
  \/ Compose
  \/ \E ok \in BOOLEAN : PreCommitTask(ok)
  \/ \E ok \in BOOLEAN : StageFiles(ok)
  \/ \E ok \in BOOLEAN : CommitRecord(ok)
  \/ \E ok \in BOOLEAN : PostCommitTask(ok)
  \/ PostCommitNoTask

SpecCommit == InitCommit /\ [][NextCommit]_vars

(***************************************************************************)
(* ImportMap.resolve (src/lib/import_map.ts) and _create (lib/update.ts).  *)
(* Specifiers are the strings of parse: a URL starts with its scheme.      *)
(***************************************************************************)
\* The number of entries of the `imports` of an import map.
MaxEntries == 2

UrlSchemes == {"http:", "https:", "file:", "npm:", "jsr:"}

\* The specifier is a URL (new URL(specifier) succeeds).
IsUrl(s) == s # <<>> /\ s[1] \in UrlSchemes

\* String.length: a scheme counts its characters.
RECURSIVE StrLen(_)
StrLen(s) ==
  IF s = <<>> THEN 0
  ELSE (CASE s[1] = "https:" -> 6
          [] s[1] \in {"http:", "file:"} -> 5
          [] s[1] \in {"npm:", "jsr:"} -> 4
          [] OTHER -> 1) + StrLen(Tail(s))

\* String.startsWith and String.includes.
StartsWith(s, prefix) ==
  Len(prefix) <= Len(s) /\ SubSeq(s, 1, Len(prefix)) = prefix
Includes(s, part) ==
  \E i \in 0..(Len(s) - Len(part)) : SubSeq(s, i + 1, i + Len(part)) = part

Https(rest) == addSeparator("https:") \o rest

\* The keys and the values of `imports`: "a/", "1/", "https://a/" and
\* "https://a@1/", "https://a@1/a/", "https://a/".
ImportKeys2 == {<<"a", "/">>, <<"1", "/">>, Https(<<"a", "/">>)}
ImportTargets ==
  {Https(<<"a", "@", "1", "/">>), Https(<<"a", "@", "1", "/", "a", "/">>),
   Https(<<"a", "/">>)}
ImportEntries == [from : ImportKeys2, to : ImportTargets]

\* json.imports, in the order of Object.entries; a key occurs once.
Imports ==
  {es \in UNION {[1..n -> ImportEntries] : n \in 0..MaxEntries} :
     \A i, j \in 1..Len(es) : es[i].from = es[j].from => i = j}

\* The ImportMap options of _create: none, or the import map of deno.json.
ImportMaps ==
  {NoImportMap} \cup
  {[kind |-> "map", specifier |-> "deno.json", imports |-> es] : es \in Imports}

\* The specifier literals of an import: "a/a", "a/a/a", "1/a", "/a",
\* "https://a@1/a", "https://a/a".
Literals ==
  {<<"a", "/", "a">>, <<"a", "/", "a", "/", "a">>, <<"1", "/", "a">>,
   <<"/", "a">>, Https(<<"a", "@", "1", "/", "a">>), Https(<<"a", "/", "a">>)}

Occurrences == [specifier : Literals, referrer : {"mod.ts", "lib.ts"}]

\* What resolveLatestVersion can answer: absent, or an update to "11".
LatestAnswers == {Absent, [kind |-> "update", version |-> <<"1", "1">>]}

\* Outcomes of inner.resolve and of ImportMap.resolve.
ResolveThrows == [kind |-> "throw"]
Resolution(url) == [kind |-> "url", url |-> url]
NotMapped == [kind |-> "undefined"]
Mapped(url, key, value) ==
  [kind |-> "mapped", specifier |-> url, from |-> key, to |-> value]

\* The entry resolves the specifier: its key ends with "/" and is a prefix,
\* or its key is the specifier.
KeyMatches(entry, s) ==
  \/ entry.from = s
  \/ entry.from[Len(entry.from)] = "/" /\ StartsWith(s, entry.from)

\* inner.resolve(specifier, referrer) of the import_map module: the entry
\* with the longest matching key maps the specifier; otherwise a URL is
\* itself, a path is resolved against the referrer's file URL, and a bare
\* specifier is an error.
innerResolve(imports, s, referrer) ==
  LET matching == {i \in 1..Len(imports) : KeyMatches(imports[i], s)}
  IN  IF matching # {}
        THEN LET i == CHOOSE k \in matching :
                        \A j \in matching :
                          StrLen(imports[j].from) <= StrLen(imports[k].from)
             IN  Resolution(imports[i].to
                              \o SubSeq(s, Len(imports[i].from) + 1, Len(s)))
      ELSE IF IsUrl(s) THEN Resolution(s)
      ELSE IF s # <<>> /\ s[1] = "/" THEN Resolution(addSeparator("file:") \o s)
      ELSE ResolveThrows

\* maxBy(entries, ({ to }) => to.length): the first entry of greatest length.
NoReplacement == [kind |-> "undefined"]
maxBy(entries) ==
  IF entries = <<>> THEN NoReplacement
  ELSE entries[CHOOSE i \in 1..Len(entries) :
                 /\ \A j \in 1..Len(entries) :
                      StrLen(entries[j].to) <= StrLen(entries[i].to)
                 /\ \A j \in 1..(i - 1) :
                      StrLen(entries[j].to) < StrLen(entries[i].to)]

\* resolve without the `resolved === specifier` test of lines 56-59.
resolveWithoutIdentityTest(imports, s, referrer) ==
  LET inner == innerResolve(imports, s, referrer)
  IN  IF inner.kind = "throw" THEN ResolveThrows
      ELSE LET resolved == inner.url
               replacement ==
                 maxBy(SelectSeq(imports, LAMBDA e : Includes(resolved, e.to)))
           IN  IF replacement = NoReplacement
                 THEN IF resolved[1] # "file:" THEN ResolveThrows
                      ELSE Mapped(resolved, <<>>, <<>>)
               ELSE Mapped(resolved, replacement.from, replacement.to)

\* ImportMap.resolve(specifier, referrer), lines 54-75.  URI.ensure("file")
\* throws on a URL of another scheme.
resolve(imports, s, referrer) ==
  LET inner == innerResolve(imports, s, referrer)
  IN  IF inner.kind = "throw" THEN ResolveThrows
      ELSE LET resolved == inner.url
               replacement ==
                 maxBy(SelectSeq(imports, LAMBDA e : Includes(resolved, e.to)))
           IN  IF resolved = s THEN NotMapped
               ELSE IF replacement = NoReplacement
                 THEN IF resolved[1] # "file:" THEN ResolveThrows
                      ELSE Mapped(resolved, <<>>, <<>>)
               ELSE Mapped(resolved, replacement.from, replacement.to)

\* The literal carries a version token itself.
CarriesVersion(s) == IsUrl(s) /\ parse(s).version # <<>>

\* What the import map option gives for the literal of an import: it is
\* consulted when there is one and the literal is not itself versioned.
MapLiteral(occ, map) ==
  IF map # NoImportMap /\ ~CarriesVersion(occ.specifier)
    THEN resolve(map.imports, occ.specifier, occ.referrer)
    ELSE NotMapped

\* The effective specifier: the one the import map gave, or the literal.
Effective(occ, mapped) ==
  IF mapped.kind = "mapped" THEN mapped.specifier ELSE occ.specifier

\* The DependencyUpdate of an import; `map` is undefined without a mapping.
NoMap == [kind |-> "undefined"]
DependencyUpdateOf(occ, map, mapped, d, to) ==
  [kind |-> "update",
   specifier |-> Effective(occ, mapped),
   code |-> occ.specifier,
   referrer |-> occ.referrer,
   name |-> d.name,
   version |-> [from |-> d.version, to |-> to],
   map |-> IF mapped.kind = "mapped"
             THEN [kind |-> "map", source |-> map.specifier,
                   from |-> mapped.from, to |-> mapped.to]
             ELSE NoMap]

\* resolveLatestVersion inside _create: schemes without a registry get absent.
ResolveLatest(d, answer) ==
  IF d.protocol \in {"npm:", "jsr:", "http:", "https:"} THEN answer ELSE Absent

\* _create that hands an unversioned dependency to the resolver.
_createWithoutVersionTest(occ, map, answer) ==
  LET mapped == MapLiteral(occ, map)
      effective == Effective(occ, mapped)
  IN  IF mapped.kind = "throw" \/ ~IsUrl(effective) THEN Thrown
      ELSE LET d == parse(effective)
               found == ResolveLatest(d, answer)
           IN  IF found = Absent THEN Absent
               ELSE DependencyUpdateOf(occ, map, mapped, d, found.version)

\* _create(dependency, referrer, { importMap }): the import map, parse, the
\* version test, resolveLatestVersion, and the DependencyUpdate.
_create(occ, map, answer) ==
  LET mapped == MapLiteral(occ, map)
      effective == Effective(occ, mapped)
  IN  IF mapped.kind = "throw" \/ ~IsUrl(effective) THEN Thrown
      ELSE LET d == parse(effective)
               found == ResolveLatest(d, answer)
           IN  IF d.version = <<>> \/ found = Absent THEN Absent
               ELSE DependencyUpdateOf(occ, map, mapped, d, found.version)

InitCreate ==
  /\ ResolverIdle
  /\ ParseIdle
  /\ PropIdle
  /\ PatchIdle
  /\ CommitIdle
  /\ ReadIdle
  /\ occurrence \in Occurrences
  /\ importMap \in ImportMaps
  /\ answered \in LatestAnswers
  /\ created = NotCreated

Create ==
  /\ created = NotCreated
  /\ created' = _create(occurrence, importMap, answered)
  /\ UNCHANGED <<occurrence, importMap, answered>>
  /\ UNCHANGED outsideCreate

NextCreate == Create

SpecCreate == InitCreate /\ [][NextCreate]_vars

(***************************************************************************)
(* ImportMap.readFromJson (src/lib/import_map.ts, lines 39-51).            *)
(***************************************************************************)
\* The number of configuration files.
NFiles == 3

\* The paths of the files; 0 is a path where no file is.
Paths == 1..NFiles
NoFile == 0

\* The JSON of a file: empty text, an object with an `importMap` string
\* (whatever else it holds), an object with `imports`, or any other object.
Contents ==
  {[kind |-> "empty"], [kind |-> "imports"], [kind |-> "other"]}
  \cup {[kind |-> "referrer", importMap |-> q] : q \in Paths \cup {NoFile}}

\* What readFromJson settles with (Pending while it runs).
NoImportMapRead == [kind |-> "undefined"]
ImportMapRead(path) == [kind |-> "importMap", specifier |-> path]
ReadRejected == [kind |-> "error"]

\* What Deno.readTextFile and parseJsonc find at a path.
FileAt(path) == IF path = NoFile THEN [kind |-> "missing"] ELSE configs[path]

InitRead ==
  /\ ResolverIdle
  /\ ParseIdle
  /\ PropIdle
  /\ PatchIdle
  /\ CommitIdle
  /\ CreateIdle
  /\ configs \in [Paths -> Contents]
  /\ reading \in Paths
  /\ visited = {}
  /\ loaded = Pending

\* Lines 43-46: the file read holds an `importMap` string, and readFromJson
\* is called on the URL it names.
Follow ==
  /\ loaded = Pending
  /\ FileAt(reading).kind = "referrer"
  /\ visited' = visited \cup {reading}
  /\ reading' = FileAt(reading).importMap
  /\ UNCHANGED <<configs, loaded>>
  /\ UNCHANGED outsideRead

\* Lines 40-41 and 47-77: Deno.readTextFile rejects where no file is; empty
\* text and a JSON without `imports` give undefined; `imports` give the
\* ImportMap of this file.
Settle ==
  /\ loaded = Pending
  /\ FileAt(reading).kind # "referrer"
  /\ visited' = visited \cup {reading}
  /\ loaded' = IF FileAt(reading).kind = "missing" THEN ReadRejected
               ELSE IF FileAt(reading).kind = "imports"
                 THEN ImportMapRead(reading)
               ELSE NoImportMapRead
  /\ UNCHANGED <<configs, reading>>
  /\ UNCHANGED outsideRead

NextRead == Follow \/ Settle

SpecRead == InitRead /\ [][NextRead]_vars

Init ==
  /\ ResolverIdle /\ ParseIdle /\ PropIdle /\ PatchIdle /\ CommitIdle
  /\ CreateIdle /\ ReadIdle

Next ==
  \/ \E t \in Tasks, d \in Dependency : Call(t, d)
  \/ \E t \in Tasks : Enter(t)
  \/ \E t \in Tasks : \E r \in Responses(dep[t]) : Respond(t, r)
  \/ \E t \in Tasks : Return(t)

Spec == Init /\ [][Next]_vars

\* A caller that awaits each call before it makes the next one.
CallAlone(t, d) == (\A u \in Tasks : ~InFlight(u)) /\ Call(t, d)

NextSequential ==
  \/ \E t \in Tasks, d \in Dependency : CallAlone(t, d)
  \/ \E t \in Tasks : Enter(t)
  \/ \E t \in Tasks : \E r \in Responses(dep[t]) : Respond(t, r)
  \/ \E t \in Tasks : Return(t)

SpecSequential == Init /\ [][NextSequential]_vars

(***************************************************************************)
(* Vocabulary of the properties.                                           *)
(***************************************************************************)
\* Version tokens that pin one version, and those that are prereleases.
PinnedVersions == {"1.0.0", "2.0.0"}
PreReleaseVersions == {"2.0.0-rc.1"}

\* Schemes resolved through a registry request.
RegistryProtocols == {"npm:", "jsr:", "http:", "https:"}

\* The call is past the Mutex and the cache check.
Entered(t) == pc[t] \in {"fetch", "unlock", "done", "failed"}

\* The call has its return value (it has returned once pc[t] = "done").
HasResult(t) == pc[t] \in {"unlock", "done"}

\* The candidate version a response supplies under its registry strategy:
\* the latest tag (npm), the greatest listed version that is neither yanked
\* nor a prerelease (JSR), the version of the redirect's final URL.
HasCandidate(r) ==
  CASE r.kind = "npm" -> r.ok /\ r.valid
    [] r.kind = "jsr" ->
         r.ok /\ r.valid /\
         \E v \in DOMAIN r.versions : ~r.versions[v] /\ v \notin PreReleaseVersions
    [] r.kind = "http" -> r.redirected /\ r.url.version # Undefined
    [] OTHER -> FALSE

CandidateOf(r) ==
  CASE r.kind = "npm" -> r.latest
    [] r.kind = "jsr" ->
         LET eligible == {v \in DOMAIN r.versions :
                            ~r.versions[v] /\ v \notin PreReleaseVersions}
         IN  IF "2.0.0" \in eligible THEN "2.0.0" ELSE "1.0.0"
    [] OTHER -> r.url.version

\* "absent", or the target version of the update a call returned.
Outcome(t) ==
  IF result[t].kind = "update" THEN result[t].dep.version ELSE "absent"

\* r is an answer of the registry that d's scheme asks.
AnswersFor(d, r) ==
  \/ d.protocol = "npm:" /\ r.kind = "npm"
  \/ d.protocol = "jsr:" /\ r.kind = "jsr"
  \/ d.protocol \in {"http:", "https:"} /\ r.kind = "http"

\* The registry's candidate for the name of call t is t's current version.
UpToDate(t) ==
  /\ HasCandidate(served[dep[t].name])
  /\ CandidateOf(served[dep[t].name]) = dep[t].version

(***************************************************************************)
(* C1.                                                                     *)
(***************************************************************************)
\* C1 (as claimed): calls for one name with a pinned version issue exactly one
\* request for that name: never more than one, and one as soon as such a
\* call is past its cache check.
C1_ExactlyOneRequest ==
  \A n \in Names :
    /\ fetched[n] <= 1
    /\ (\E t \in Tasks : Entered(t) /\ dep[t].name = n
                         /\ dep[t].version \in PinnedVersions)
         => fetched[n] = 1

\* C1 (amended): no name ever has more than one request; a name whose calls
\* all use a registry scheme (npm:, jsr:, http:, https:) has exactly one as
\* soon as a call with a pinned version is past its cache check.
C1_ExactlyOneRegistryRequest ==
  \A n \in Names :
    /\ fetched[n] <= 1
    /\ ( /\ \E t \in Tasks : Entered(t) /\ dep[t].name = n
                             /\ dep[t].version \in PinnedVersions
         /\ \A u \in Tasks : pc[u] # "idle" /\ dep[u].name = n
                             => dep[u].protocol \in RegistryProtocols )
         => fetched[n] = 1

\* Two calls for one name, both pinned and of a registry scheme, have both
\* returned and one request was issued.
C1_Witness ==
  \E t, u \in Tasks :
    /\ t # u /\ pc[t] = "done" /\ pc[u] = "done"
    /\ dep[t].name = dep[u].name
    /\ dep[t].version \in PinnedVersions /\ dep[u].version \in PinnedVersions
    /\ dep[t].protocol \in RegistryProtocols
    /\ dep[u].protocol \in RegistryProtocols
    /\ fetched[dep[t].name] = 1

(***************************************************************************)
(* C2.                                                                     *)
(***************************************************************************)
\* C2 (as claimed): any two calls for one name that have returned got the same
\* outcome: both absent, or both an update to the same version.
C2_IdenticalResult ==
  \A t, u \in Tasks :
    pc[t] = "done" /\ pc[u] = "done" /\ dep[t].name = dep[u].name
      => Outcome(t) = Outcome(u)

\* C2 (amended): any two calls for one name whose version token is not an
\* inequality range, once returned, got the same outcome.
C2_IdenticalResultUnlessRange ==
  \A t, u \in Tasks :
    /\ pc[t] = "done" /\ pc[u] = "done" /\ dep[t].name = dep[u].name
    /\ dep[t].version # "^1.0.0" /\ dep[u].version # "^1.0.0"
    => Outcome(t) = Outcome(u)

\* Two calls for one name with different current versions both returned an
\* update to the same version.
C2_Witness ==
  \E t, u \in Tasks :
    /\ t # u /\ pc[t] = "done" /\ pc[u] = "done"
    /\ dep[t].name = dep[u].name /\ dep[t].version # dep[u].version
    /\ dep[t].version # "^1.0.0" /\ dep[u].version # "^1.0.0"
    /\ result[t].kind = "update" /\ Outcome(t) = Outcome(u)

(***************************************************************************)
(* C4.                                                                     *)
(***************************************************************************)
\* C4: a call whose version token is an inequality range issues no request
\* and returns absent, whatever the cache holds.
C4_RangeNeverBumped ==
  \A t \in Tasks :
    dep[t].version = "^1.0.0"
      => /\ pc[t] # "fetch"
         /\ HasResult(t) => result[t] = Absent

(***************************************************************************)
(* C5 (under SpecSequential).                                              *)
(***************************************************************************)
\* C5: when an up-to-date dependency is resolved twice, one call after the
\* other, one request is issued and both calls return absent.
C5_NegativeCacheIdempotent ==
  \A t, u \in Tasks :
    /\ t < u /\ pc[t] = "done" /\ pc[u] = "done"
    /\ dep[u] = dep[t] /\ UpToDate(t)
    => /\ fetched[dep[t].name] = 1
       /\ result[t] = Absent
       /\ result[u] = Absent

(***************************************************************************)
(* C6.                                                                     *)
(***************************************************************************)
\* C6 (as claimed): when a call has returned, the cache entry of its name is
\* resolved(version) or no-update, never unresolved.
C6_TerminalOnReturn ==
  \A t \in Tasks :
    pc[t] = "done" => cache[dep[t].name] # Unresolved

\* C6 (amended): when a call whose version token is not an inequality range
\* has returned, the cache entry of its name is resolved(version) or
\* no-update.
C6_TerminalOnReturnUnlessRange ==
  \A t \in Tasks :
    pc[t] = "done" /\ dep[t].version # "^1.0.0"
      => cache[dep[t].name] # Unresolved

\* A call returned absent after its fetch and its name is cached as no-update.
C6_Witness ==
  \E t \in Tasks :
    /\ pc[t] = "done" /\ dep[t].version # "^1.0.0"
    /\ fetched[dep[t].name] = 1
    /\ result[t] = Absent /\ cache[dep[t].name] = NoUpdate

(***************************************************************************)
(* C7.                                                                     *)
(***************************************************************************)
\* C7: under every strategy, a call whose candidate equals its current
\* version returns absent and its name is cached as no-update.
C7_EqualCandidateIsNoUpdate ==
  \A t \in Tasks :
    HasResult(t) /\ UpToDate(t)
      => result[t] = Absent /\ cache[dep[t].name] = NoUpdate

(***************************************************************************)
(* C8.                                                                     *)
(***************************************************************************)
\* C8: when the candidate the registry supplied for a name is a prerelease,
\* every call for that name returns absent.
C8_PreReleaseIsAbsent ==
  \A t \in Tasks :
    /\ HasResult(t)
    /\ HasCandidate(served[dep[t].name])
    /\ CandidateOf(served[dep[t].name]) \in PreReleaseVersions
    => result[t] = Absent

\* An npm call and a redirect-probing call each got a prerelease candidate
\* and returned absent.
C8_Witness ==
  \E t, u \in Tasks :
    /\ pc[t] = "done" /\ pc[u] = "done"
    /\ dep[t].protocol = "npm:" /\ dep[u].protocol = "https:"
    /\ served[dep[t].name].kind = "npm"
    /\ served[dep[u].name].kind = "http"
    /\ \A x \in {t, u} :
         /\ HasCandidate(served[dep[x].name])
         /\ CandidateOf(served[dep[x].name]) \in PreReleaseVersions
         /\ result[x] = Absent

(***************************************************************************)
(* C9.                                                                     *)
(***************************************************************************)
\* The responses on which a resolution throws: a rejected fetch, or a body
\* that fails validation.
Faulty(r) ==
  \/ r.kind = "rejected"
  \/ r.kind \in {"npm", "jsr"} /\ r.ok /\ ~r.valid
  \/ r.kind = "jsr" /\ r.ok /\ r.valid /\ ~HasCandidate(r)

\* C9: a call raises only on a faulty response for its own name, and a call
\* in flight for a name none of whose calls has failed never waits on a call
\* for another name: some call for its name can take its next step.
C9_FailuresIsolated ==
  \A t \in Tasks :
    /\ pc[t] = "failed" => Faulty(served[dep[t].name])
    /\ ( /\ InFlight(t)
         /\ \A u \in Tasks : pc[u] = "failed" => dep[u].name # dep[t].name )
       => \E u \in Tasks : dep[u].name = dep[t].name /\ ENABLED Step(u)

\* One call has failed; a call for another name, made after it, has returned
\* an update.
C9_Witness ==
  \E t, u \in Tasks :
    /\ t < u /\ pc[t] = "failed" /\ pc[u] = "done"
    /\ dep[t].name # dep[u].name
    /\ result[u].kind = "update"

(***************************************************************************)
(* C10.                                                                    *)
(***************************************************************************)
\* C10: when the npm or JSR metadata request for a name is answered non-2xx,
\* the call that made it raises an error.
C10_NotFoundRaises ==
  \A n \in Names :
    served[n].kind \in {"npm", "jsr"} /\ ~served[n].ok
      => \E t \in Tasks : dep[t].name = n /\ pc[t] = "failed"

(***************************************************************************)
(* C11.                                                                    *)
(***************************************************************************)
\* C11: a redirect-probing call whose HEAD probe was not redirected, or ended
\* in a non-2xx status (redirected or not), raises no error and returns absent.
C11_ProbeFailureIsAbsent ==
  \A t \in Tasks :
    /\ dep[t].protocol \in {"http:", "https:"}
    /\ served[dep[t].name].kind = "http"
    /\ ~served[dep[t].name].redirected \/ ~served[dep[t].name].ok
    => /\ pc[t] # "failed"
       /\ HasResult(t) => result[t] = Absent

\* The part of C11 about probes that were not redirected.
ProbeNotRedirectedIsAbsent ==
  \A t \in Tasks :
    /\ dep[t].protocol \in {"http:", "https:"}
    /\ served[dep[t].name].kind = "http"
    /\ ~served[dep[t].name].redirected
    => /\ pc[t] # "failed"
       /\ HasResult(t) => result[t] = Absent

(***************************************************************************)
(* C12.                                                                    *)
(***************************************************************************)
\* The listed versions of a JSR response that are neither yanked nor
\* prereleases.
Eligible(r) ==
  {v \in DOMAIN r.versions : ~r.versions[v] /\ v \notin PreReleaseVersions}

\* v is a maximum of the set S under semantic-version ordering.
IsMaximum(v, S) ==
  v \in S /\ \A w \in S : Compare(SemVerOf(w), SemVerOf(v)) <= 0

\* C12: the update a jsr: call returns from a valid listing has the maximum
\* of the listed versions that are neither yanked nor prereleases, and the
\* call returns that update whenever this maximum is not its current version.
C12_JsrMaximumEligible ==
  \A t \in Tasks :
    /\ HasResult(t)
    /\ dep[t].protocol = "jsr:"
    /\ served[dep[t].name].kind = "jsr"
    /\ served[dep[t].name].ok /\ served[dep[t].name].valid
    => LET eligible == Eligible(served[dep[t].name])
       IN  /\ result[t].kind = "update"
                => IsMaximum(result[t].dep.version, eligible)
           /\ \A v \in eligible :
                IsMaximum(v, eligible) /\ v # dep[t].version
                  => result[t].kind = "update" /\ result[t].dep.version = v

\* A jsr: call returned 2.0.0 from a listing that also holds 1.0.0 and a
\* prerelease; another returned absent from a listing whose 2.0.0 is yanked.
C12_Witness ==
  \E t, u \in Tasks :
    /\ pc[t] = "done" /\ pc[u] = "done"
    /\ dep[t].protocol = "jsr:" /\ dep[u].protocol = "jsr:"
    /\ served[dep[t].name].kind = "jsr" /\ served[dep[t].name].valid
    /\ served[dep[u].name].kind = "jsr" /\ served[dep[u].name].valid
    /\ DOMAIN served[dep[t].name].versions = RegistryVersions
    /\ Eligible(served[dep[t].name]) = {"1.0.0", "2.0.0"}
    /\ result[t].kind = "update" /\ result[t].dep.version = "2.0.0"
    /\ DOMAIN served[dep[u].name].versions = RegistryVersions
    /\ served[dep[u].name].versions["2.0.0"]
    /\ Eligible(served[dep[u].name]) = {"1.0.0"}
    /\ result[u] = Absent

(***************************************************************************)
(* C13.                                                                    *)
(***************************************************************************)
\* C13: an update returned for dependency d has d's protocol, name and path,
\* and its version is the candidate the registry supplied for d's name, on
\* the fetching call and on cache hits alike.
C13_UpdateKeepsIdentity ==
  \A t \in Tasks :
    HasResult(t) /\ result[t].kind = "update"
      => /\ result[t].dep.protocol = dep[t].protocol
         /\ result[t].dep.name = dep[t].name
         /\ result[t].dep.path = dep[t].path
         /\ HasCandidate(served[dep[t].name])
         /\ result[t].dep.version = CandidateOf(served[dep[t].name])

(***************************************************************************)
(* C14, C15, C16 (under SpecVersionProp).                                  *)
(***************************************************************************)
\* The package names, targets and prior versions that occur in the list.
NamesIn(us) == {us[i].name : i \in 1..Len(us)}
TargetsIn(us) == {us[i].version.to : i \in 1..Len(us)}
PriorsIn(us) == {us[i].version.from : i \in 1..Len(us)}

\* createVersionProp has returned or thrown.
Reconciled == versionProp # NotCalled

\* C14: for a non-empty list with one package name and one target,
\* createVersionProp returns {from, to} with `to` the agreed target and
\* `from` the common prior version if all agree, absent otherwise.
C14_AgreedTarget ==
  /\ Reconciled /\ updates # <<>>
  /\ Cardinality(NamesIn(updates)) = 1
  /\ Cardinality(TargetsIn(updates)) = 1
  => /\ versionProp.kind = "prop"
     /\ versionProp.to \in TargetsIn(updates)
     /\ IF Cardinality(PriorsIn(updates)) = 1
          THEN versionProp.from \in PriorsIn(updates)
          ELSE versionProp.from = Undefined

\* Updates of one name and one target that disagree on the prior version
\* were reconciled to {from: absent, to}.
C14_Witness ==
  /\ Reconciled /\ Len(updates) >= 2
  /\ Cardinality(NamesIn(updates)) = 1
  /\ Cardinality(TargetsIn(updates)) = 1
  /\ Cardinality(PriorsIn(updates)) = 2
  /\ versionProp = VersionProp(Undefined, "0.2.0")

\* C15: for a list with one package name and two or more distinct targets,
\* createVersionProp raises the conflict error and returns nothing.
C15_ConflictRaises ==
  /\ Reconciled
  /\ Cardinality(NamesIn(updates)) = 1
  /\ Cardinality(TargetsIn(updates)) >= 2
  => versionProp = Conflict

\* Updates of one name and one prior version with two targets raised the
\* conflict error.
C15_Witness ==
  /\ versionProp = Conflict
  /\ Cardinality(NamesIn(updates)) = 1
  /\ Cardinality(PriorsIn(updates)) = 1
  /\ Cardinality(TargetsIn(updates)) = 2

\* C16: for a list with more than one distinct package name,
\* createVersionProp returns absent and raises nothing, also when the
\* updates disagree on the target.
C16_SeveralNamesIsAbsent ==
  Reconciled /\ Cardinality(NamesIn(updates)) > 1
    => versionProp = NoVersionProp

\* Updates of two names and two targets were answered with absent.
C16_Witness ==
  /\ versionProp = NoVersionProp
  /\ Cardinality(NamesIn(updates)) = 2
  /\ Cardinality(TargetsIn(updates)) = 2

(***************************************************************************)
(* C17, C18 (under SpecPatch).                                             *)
(***************************************************************************)
\* new is old with the token `prior` at index k replaced by `target`, and
\* nothing else changed: the characters before k and those after the token
\* are the same, in the same order.
ReplacedAt(old, new, k, prior, target) ==
  /\ SubSeq(old, k, k + Len(prior) - 1) = prior
  /\ Len(new) = Len(old) - Len(prior) + Len(target)
  /\ \A i \in 1..(k - 1) : new[i] = old[i]
  /\ \A i \in 1..Len(target) : new[k - 1 + i] = target[i]
  /\ \A i \in (k + Len(prior))..Len(old) :
       new[i - Len(prior) + Len(target)] = old[i]

\* The indices of the version token of a specifier literal at
\* text[lo..hi]: it follows the "@" of the literal.
TokenIndices(text, lo, hi) ==
  {k \in (lo + 1)..hi : text[k - 1] = "@"}

\* C17: applyToModule returns the text with the old version token inside
\* the recorded span replaced by the new version, every character outside
\* the token as in the input; the result differs from the input when the
\* two versions differ.
C17_ModulePatchLocal ==
  patched # NotPatched /\ update.kind = "module"
    => /\ \E k \in TokenIndices(content, update.span.start, update.span.end) :
            /\ k + Len(update.version.from) - 1 <= update.span.end
            /\ ReplacedAt(content, patched, k,
                          update.version.from, update.version.to)
       /\ update.version.from # update.version.to => patched # content

\* A module whose text holds the old version also before the span was
\* patched to a version of another length.
C17_Witness ==
  /\ patched # NotPatched /\ update.kind = "module"
  /\ Find(content, update.version.from, 1) > 0
  /\ Find(content, update.version.from, 1) < update.span.start
  /\ Len(update.version.to) # Len(update.version.from)
  /\ patched # content

\* The indices of the entry of key in an import-map text: from its key
\* literal up to the "," or "}" that ends the entry.
EntryIndices(text, key) ==
  LET keyAt == CHOOSE i \in 1..Len(text) :
                 SubSeq(text, i, i + Len(key) + 1) = Quoted(key)
      stop == CHOOSE j \in (keyAt + 1)..Len(text) :
                /\ text[j] \in {",", "}"}
                /\ \A i \in (keyAt + 1)..(j - 1) : text[i] \notin {",", "}"}
  IN  keyAt..stop

\* C18: applyToImportMap returns the text with the version token inside the
\* value of the matched entry replaced, every other character (the other
\* entry, the order of the keys, white space, quotes, comments) as in the
\* input; the result differs from the input when the two versions differ.
C18_ImportMapPatchLocal ==
  patched # NotPatched /\ update.kind = "importMap"
    => /\ \E k \in EntryIndices(content, update.map.from) :
            /\ content[k - 1] = "@"
            /\ ReplacedAt(content, patched, k,
                          update.version.from, update.version.to)
       /\ update.version.from # update.version.to => patched # content

\* An import map with a comment whose two entries have the same value was
\* patched for its second entry, and its first entry is as it was.
C18_Witness ==
  /\ patched # NotPatched /\ update.kind = "importMap"
  /\ update.map.from = ImportKeys[2]
  /\ Find(content, Quoted(update.map.to), 1)
       \in EntryIndices(content, ImportKeys[1])
  /\ \E i \in 1..Len(content) : content[i] = "#"
  /\ update.version.from # update.version.to
  /\ \A i \in EntryIndices(content, ImportKeys[1]) : patched[i] = content[i]

(***************************************************************************)
(* C19, C20 (under SpecCommit).                                            *)
(***************************************************************************)
\* The sequence has been composed.
Composed == cursor.step \notin {"idle", "from"}

\* The grouping keys of the updates, and the updates of one key.
KeysOf(j) == {GroupKey(j.updates[i], j.groupBy) : i \in 1..Len(j.updates)}
UpdatesOf(j, key) ==
  {i \in 1..Len(j.updates) : GroupKey(j.updates[i], j.groupBy) = key}

\* The entries of the log of one kind for record k, and the git commands.
EventsOf(kind, k) ==
  {i \in 1..Len(log) : log[i].kind = kind /\ log[i].record = k}
GitCommands == {i \in 1..Len(log) : log[i].kind \in {"add", "commit"}}

\* C19: the sequence has exactly one record per distinct grouping key (one
\* record without groupBy), every update belongs to exactly one record,
\* each record stages exactly the files of its group's updates, and an
\* execution that runs to its end has issued one git add and one git commit
\* per record, never more: 2 x (number of groups) commands.
C19_OneRecordPerGroup ==
  Composed =>
    /\ Len(commits) = Cardinality(KeysOf(job))
    /\ {commits[k].group : k \in 1..Len(commits)} = KeysOf(job)
    /\ job.groupBy = "none" => Len(commits) = 1
    /\ \A i \in 1..Len(job.updates) :
         Cardinality({k \in 1..Len(commits) :
           commits[k].group = GroupKey(job.updates[i], job.groupBy)}) = 1
    /\ \A k \in 1..Len(commits) :
         /\ commits[k].files =
              {job.updates[i].referrer : i \in UpdatesOf(job, commits[k].group)}
         /\ Cardinality(EventsOf("add", k)) <= 1
         /\ Cardinality(EventsOf("commit", k)) <= 1
         /\ \A i \in EventsOf("add", k) : log[i].files = commits[k].files
         /\ cursor.step = "done" => /\ Cardinality(EventsOf("add", k)) = 1
                                    /\ Cardinality(EventsOf("commit", k)) = 1
    /\ cursor.step = "done" => Cardinality(GitCommands) = 2 * Len(commits)

\* Three updates of two packages, grouped by name, were committed as two
\* records, one of them staging two files, with four git commands.
C19_Witness ==
  /\ cursor.step = "done"
  /\ job.groupBy = "name" /\ Len(job.updates) = 3
  /\ Len(commits) = 2
  /\ \E k \in 1..2 : commits[k].files = {"mod.ts", "lib.ts"}
  /\ Cardinality(GitCommands) = 4

\* The place of a step within its record.
Rank(kind) ==
  CASE kind = "preCommit" -> 1
    [] kind = "add" -> 2
    [] kind = "commit" -> 3
    [] kind = "postCommit" -> 4

\* C20: the records are processed in compose order and never interleaved:
\* within a record the order is preCommit (if present), stage, commit,
\* postCommit; a record is committed only after it was staged, staged only
\* after its preCommit tasks, and no step of a record starts before the
\* postCommit of the record before it has finished.
C20_LinearOrder ==
  /\ \A i, j \in 1..Len(log) :
       i < j => /\ log[i].record <= log[j].record
                /\ log[i].record = log[j].record
                     => Rank(log[i].kind) <= Rank(log[j].kind)
  /\ \A j \in 1..Len(log) :
       /\ log[j].record \in 1..Len(commits)
       /\ log[j].kind = "preCommit" => job.preCommit > 0
       /\ log[j].kind = "add"
            => Cardinality({i \in EventsOf("preCommit", log[j].record) : i < j})
                 = job.preCommit
       /\ log[j].kind = "commit"
            => \E i \in EventsOf("add", log[j].record) : i < j
       /\ log[j].kind = "postCommit"
            => \E i \in EventsOf("commit", log[j].record) : i < j
       /\ log[j].record > 1
            => \E i \in EventsOf("postCommit", log[j].record - 1) :
                 i < j /\ log[i].task = job.postCommit

\* Two records were each taken through two preCommit tasks, git add, git
\* commit and a postCommit task, the second after the first.
C20_Witness ==
  /\ cursor.step = "done"
  /\ Len(commits) = 2 /\ job.preCommit = 2 /\ job.postCommit = 1
  /\ [i \in 1..Len(log) |-> <<log[i].record, log[i].kind>>]
       = << <<1, "preCommit">>, <<1, "preCommit">>, <<1, "add">>,
            <<1, "commit">>, <<1, "postCommit">>,
            <<2, "preCommit">>, <<2, "preCommit">>, <<2, "add">>,
            <<2, "commit">>, <<2, "postCommit">> >>

(***************************************************************************)
(* C21, C22 (under SpecCommit).                                            *)
(***************************************************************************)
\* The entries of the log that are git commands, and those that are tasks
\* of a hook.
IsGit(e) == e.kind \in {"add", "commit"}
IsTask(e) == e.kind \in {"preCommit", "postCommit"} /\ e.task > 0

\* Every record before k has been committed, once and with success.
CommittedBefore(k) ==
  \A r \in 1..(k - 1) :
    /\ Cardinality(EventsOf("commit", r)) = 1
    /\ \A i \in EventsOf("commit", r) : log[i].ok

\* C21: a git add or git commit that fails is the last thing exec does: no
\* command or hook of any record follows it, the record it failed for has
\* no commit, and the records before it stay committed.
C21_VcsFailureAborts ==
  \A j \in 1..Len(log) :
    IsGit(log[j]) /\ ~log[j].ok
      => /\ j = Len(log)
         /\ ~ENABLED NextCommit
         /\ \A i \in EventsOf("commit", log[j].record) : ~log[i].ok
         /\ CommittedBefore(log[j].record)

\* The git commit of the second of two records failed after the first
\* record was committed.
C21_Witness ==
  /\ cursor.step = "aborted"
  /\ Len(commits) = 2 /\ cursor.record = 2
  /\ log[Len(log)].kind = "commit" /\ ~log[Len(log)].ok
  /\ EventsOf("commit", 1) # {} /\ CommittedBefore(2)

\* C22: a task of a hook that exits non-zero is the last thing that runs:
\* after a failed pre-commit task the record is neither staged nor
\* committed, and after a failed pre- or post-commit task no later record
\* is processed.
C22_HooksGate ==
  \A j \in 1..Len(log) :
    IsTask(log[j]) /\ ~log[j].ok
      => /\ j = Len(log)
         /\ ~ENABLED NextCommit
         /\ log[j].kind = "preCommit"
              => /\ EventsOf("add", log[j].record) = {}
                 /\ EventsOf("commit", log[j].record) = {}
         /\ \A i \in 1..Len(log) : log[i].record <= log[j].record

\* The second pre-commit task of the first of two records exited non-zero.
C22_Witness ==
  /\ cursor.step = "exited"
  /\ Len(commits) = 2 /\ cursor.record = 1
  /\ log[Len(log)].kind = "preCommit" /\ log[Len(log)].task = 2
  /\ ~log[Len(log)].ok

(***************************************************************************)
(* C27 (under SpecVersionProp).                                            *)
(***************************************************************************)
\* C27: the error raised when the updates of one module disagree on the
\* target version names every target version in conflict.
C27_ConflictNamesTargets ==
  versionProp.kind = "error" => TargetsIn(updates) \subseteq versionProp.names

(***************************************************************************)
(* C23.  collect makes one _create call, and so one resolveLatestVersion   *)
(* call, for each occurrence: call t stands for occurrence t.              *)
(***************************************************************************)
\* collect emits the Update of occurrence t: the occurrence carries a version
\* and its resolveLatestVersion call returned an update.
Emitted(t) ==
  HasResult(t) /\ result[t].kind = "update" /\ dep[t].version # Undefined

\* The registry's answer r offers a version newer than that of d.
HasNewer(d, r) ==
  /\ d.version \in PinnedVersions
  /\ HasCandidate(r)
  /\ CandidateOf(r) \in PinnedVersions
  /\ Compare(SemVerOf(CandidateOf(r)), SemVerOf(d.version)) > 0

\* C23: once the resolution of an occurrence is over, an Update is emitted
\* for it if and only if its registry offers a version newer than the
\* occurrence's own, whatever other occurrences of the same package there
\* are: no occurrence is merged into another or dropped.
C23_OneUpdatePerOccurrence ==
  \A t \in Tasks :
    HasResult(t) /\ AnswersFor(dep[t], served[dep[t].name])
      /\ dep[t].protocol = "npm:" /\ dep[t].version \in PinnedVersions
      => (Emitted(t) <=> HasNewer(dep[t], served[dep[t].name]))

(***************************************************************************)
(* C24, C25 (under SpecCreate).                                            *)
(***************************************************************************)
\* _create has returned or thrown.
CreateDone == created # NotCreated

\* The effective specifier of the import given to _create.
EffectiveSpecifier == Effective(occurrence, MapLiteral(occurrence, importMap))

\* C24: an import whose effective specifier carries no version token gets
\* no DependencyUpdate: _create returns undefined, whatever the resolver
\* answers.
C24_UnversionedIsAbsent ==
  CreateDone /\ IsUrl(EffectiveSpecifier)
    /\ parse(EffectiveSpecifier).version = <<>>
    => created = Absent

\* An unversioned https URL for which the resolver answers an update.
C24_Witness ==
  /\ created = Absent
  /\ IsUrl(EffectiveSpecifier)
  /\ EffectiveSpecifier[1] = "https:"
  /\ parse(EffectiveSpecifier).version = <<>>
  /\ answered.kind = "update"

\* The import map maps the literal to another specifier.
Remapped ==
  /\ importMap # NoImportMap
  /\ LET inner ==
           innerResolve(importMap.imports, occurrence.specifier,
                        occurrence.referrer)
     IN  inner.kind = "url" /\ inner.url # occurrence.specifier

\* C25: a DependencyUpdate carries `map` if and only if the import map gave
\* an effective specifier other than the literal, and then `map` is the
\* import map's own specifier with a key and a value of its imports; for a
\* literal the import map leaves as it is, resolve returns undefined.
C25_MapIffRemapped ==
  /\ created.kind = "update" =>
       /\ created.map # NoMap <=> Remapped
       /\ created.map # NoMap =>
            /\ created.map.source = importMap.specifier
            /\ \E i \in 1..Len(importMap.imports) :
                 /\ importMap.imports[i].from = created.map.from
                 /\ importMap.imports[i].to = created.map.to
            /\ created.specifier # created.code
  /\ CreateDone /\ importMap # NoImportMap /\ ~Remapped
       /\ IsUrl(occurrence.specifier)
       => resolve(importMap.imports, occurrence.specifier,
                  occurrence.referrer) = NotMapped

\* An update made through the entry "a/" of an import map of two entries.
C25_Witness ==
  /\ created.kind = "update"
  /\ importMap # NoImportMap
  /\ Len(importMap.imports) = 2
  /\ Remapped
  /\ created.map # NoMap
  /\ created.map.from = <<"a", "/">>
  /\ created.specifier # created.code

(***************************************************************************)
(* C26.                                                                    *)
(***************************************************************************)
\* C26: the cache entry of a name is written at most once: once it is
\* resolved(version) or no-update, no step changes it.
C26_WriteOnce ==
  [][\A n \in Names : cache[n] # Unresolved => cache'[n] = cache[n]]_vars

\* A name's entry was written by one call and read by a later call for it.
C26_Witness ==
  \E t, u \in Tasks :
    /\ t < u /\ pc[t] = "done" /\ pc[u] = "done"
    /\ dep[t].name = dep[u].name
    /\ cache[dep[t].name].kind = "resolved"
    /\ fetched[dep[t].name] = 1
    /\ result[u].kind = "update"

(***************************************************************************)
(* C28.                                                                    *)
(***************************************************************************)
\* The call is between lock(name) and unlock(name).
InCriticalSection(t) == pc[t] \in {"fetch", "unlock", "failed"}

\* C28: at most one call per name is between lock and unlock, and it is the
\* oldest acquirer of the name's Mutex; no call of a name has passed its
\* cache check while another call's write to that name is still to come:
\* a call that waits for its fetch finds the entry unresolved, and a call
\* that is past its resolution finds the entry it read or wrote.
C28_Serialized ==
  /\ \A t, u \in Tasks :
       InCriticalSection(t) /\ InCriticalSection(u) /\ dep[t].name = dep[u].name
         => t = u
  /\ \A t \in Tasks :
       /\ InCriticalSection(t) => Head(mutex[dep[t].name]) = t
       /\ pc[t] = "fetch" => cache[dep[t].name] = Unresolved
       /\ pc[t] = "unlock" /\ result[t].kind = "update"
            => cache[dep[t].name].kind = "resolved"
               /\ cache[dep[t].name].dep.version = result[t].dep.version

\* One call waits for its fetch while another call for the same name waits
\* for the lock.
C28_Witness ==
  \E t, u \in Tasks :
    /\ pc[t] = "fetch" /\ pc[u] = "lock"
    /\ dep[t].name = dep[u].name
    /\ dep[u].version \in PinnedVersions

(***************************************************************************)
(* C29.                                                                    *)
(***************************************************************************)
\* The call is queued on, or holds, the Mutex of its name.
OnMutex(t) ==
  \E i \in 1..Len(mutex[dep[t].name]) : mutex[dep[t].name][i] = t

\* C29: a call that has returned or raised has released the Mutex of its
\* name, and a call that waits for the lock is never stuck: some call for
\* its name can take a step.
C29_MutexReleasedOnEveryExit ==
  \A t \in Tasks :
    /\ pc[t] \in {"done", "failed"} => ~OnMutex(t)
    /\ pc[t] = "lock"
         => \E u \in Tasks : dep[u].name = dep[t].name /\ ENABLED Step(u)

(***************************************************************************)
(* C30.                                                                    *)
(***************************************************************************)
\* What a call for d returns when it is the first for its name and the
\* registry answers r: the cache is unresolved.
OutcomeAlone(d, r) ==
  LET o == CacheCheck(Unresolved, d)
  IN  IF o.kind = "fetch" /\ AfterFetch(d, r).kind = "found"
        THEN AfterFetch(d, r).dep.version
        ELSE "absent"

\* C30: what a call returns (absent, or the target version) is what it
\* would return had no other call for its name been resolved before it.
C30_OrderIndependent ==
  \A t \in Tasks :
    HasResult(t) /\ AnswersFor(dep[t], served[dep[t].name])
      => Outcome(t) = OutcomeAlone(dep[t], served[dep[t].name])

(***************************************************************************)
(* C31 (under SpecCreate).                                                 *)
(***************************************************************************)
\* What ImportMap.resolve returns for the import given to _create.
ResolvedThroughMap ==
  resolve(importMap.imports, occurrence.specifier, occurrence.referrer)

\* C31: when resolve reports a from/to pair, the pair is an entry of the
\* imports whose key the input specifier starts with (or equals) and whose
\* value the effective specifier starts with (or equals); the `map` of the
\* DependencyUpdate made from it is that same pair.
C31_ReportedEntryIsUsed ==
  CreateDone /\ importMap # NoImportMap
    /\ ResolvedThroughMap.kind = "mapped" /\ ResolvedThroughMap.from # <<>>
    => /\ \E i \in 1..Len(importMap.imports) :
            /\ importMap.imports[i].from = ResolvedThroughMap.from
            /\ importMap.imports[i].to = ResolvedThroughMap.to
       /\ StartsWith(occurrence.specifier, ResolvedThroughMap.from)
       /\ StartsWith(ResolvedThroughMap.specifier, ResolvedThroughMap.to)
       /\ created.kind = "update"
            => /\ created.map.from = ResolvedThroughMap.from
               /\ StartsWith(created.code, created.map.from)

(***************************************************************************)
(* C32.                                                                    *)
(***************************************************************************)
\* C32: a jsr: call whose registry listing is valid and holds no version
\* that is neither yanked nor a prerelease returns absent, leaves the name
\* cached as no-update and raises no error.
C32_NoEligibleIsAbsent ==
  \A t \in Tasks :
    /\ pc[t] \in {"unlock", "done", "failed"}
    /\ dep[t].protocol = "jsr:"
    /\ served[dep[t].name].kind = "jsr"
    /\ served[dep[t].name].ok /\ served[dep[t].name].valid
    /\ Eligible(served[dep[t].name]) = {}
    => /\ pc[t] # "failed"
       /\ result[t] = Absent
       /\ cache[dep[t].name] = NoUpdate

(***************************************************************************)
(* C33 (under SpecVersionProp).                                            *)
(***************************************************************************)
\* The list with its elements at i and j exchanged.
Exchanged(us, i, j) ==
  [k \in 1..Len(us) |-> IF k = i THEN us[j] ELSE IF k = j THEN us[i] ELSE us[k]]

\* The list with a copy of its element i put in front of position k.
Duplicated(us, i, k) ==
  SubSeq(us, 1, k - 1) \o <<us[i]>> \o SubSeq(us, k, Len(us))

\* C33: what createVersionProp returned or threw for a list is what it
\* returns or throws for the list with any two elements exchanged and for
\* the list with any element repeated at any position; every permutation
\* and every list with the same set of (name, from, to) is reached from the
\* list by such steps.
C33_SetOfTriplesOnly ==
  versionProp # NotCalled =>
    /\ \A i, j \in 1..Len(updates) :
         createVersionProp(Exchanged(updates, i, j)) = versionProp
    /\ \A i \in 1..Len(updates) : \A k \in 1..(Len(updates) + 1) :
         createVersionProp(Duplicated(updates, i, k)) = versionProp

\* A list of three updates of one module, the first and the last the same
\* and the second with another `from`, has been reconciled.
C33_Witness ==
  /\ versionProp.kind = "prop"
  /\ Len(updates) = 3
  /\ updates[1] = updates[3]
  /\ updates[1].version.from # updates[2].version.from

(***************************************************************************)
(* C34 (under SpecRead).                                                   *)
(***************************************************************************)
\* C34: readFromJson ends: the files do not change while it runs, so it
\* ends if and only if it never comes to read a file it has read before;
\* and while it has not ended it can take its next step.
C34_ReadTerminates ==
  loaded = Pending => reading \notin visited /\ ENABLED NextRead

(***************************************************************************)
(* C3 (under SpecParse).                                                   *)
(***************************************************************************)
\* The specifier carries a version: <name>@<version>.
Versioned(url) == Count(url, "@") = 1

\* C3: for every well-formed versioned specifier s, toUrl(parse(s)) is s.
C3_RoundTrip ==
  stage = "built" /\ Versioned(specifier) => rebuilt = specifier

\* The round trip of a versioned specifier without a search component.
RoundTripWithoutSearch ==
  stage = "built" /\ Versioned(specifier) /\ Count(specifier, "?") = 0
    => /\ parsed.version # <<>>
       /\ rebuilt = specifier

====
